---------------------------- MODULE Spec2Model ----------------------------
(***************************************************************************)
(* Repository tag scanner (src/app.py) and version-tag data transformer    *)
(* (src/data_transformer.py).                                              *)
(*                                                                         *)
(* Three specifications share this module:                                 *)
(*   SpecMatch  the pattern-scan predicate applied to one (pattern, tag)   *)
(*   SpecScan   one scan request served by one of the three scan endpoints *)
(*   SpecData   a sequence of transform / enhance / merge calls on Python  *)
(*              dict objects, with the reference sharing Python gives them *)
(*                                                                         *)
(* Tag names, versions and patterns are sequences of one-character         *)
(* strings, so that startswith, concatenation and regular-expression       *)
(* matching are computed character by character; so are dates, commit ids, *)
(* authors and messages.  Repository names, paths and error details are    *)
(* atomic strings.                                                         *)
(***************************************************************************)
EXTENDS Integers, Sequences, FiniteSets, TLC

VARIABLES
    \* ---- one scan request (src/app.py) ----
    endpoint,          \* "org_tag" | "local_tag" | "org_patterns"
    tag_version,       \* path parameter of the exact-tag endpoints
    include_patterns,  \* query parameter of the organization exact-tag endpoint
    version_pattern,   \* path parameter of the pattern endpoint
    max_results,       \* query parameter of the pattern endpoint
    pc,                \* position of the handler
    repos_data,        \* what the repository listing command answered
    repositories,      \* get_repositories(org_name)
    git_repos,         \* find_local_git_repositories(base_path)
    total_repos,
    tag_patterns,      \* candidate list of the exact-tag scans
    found_tags,
    repo_idx,          \* position of "for repo in repositories"
    tags,              \* tag list of the repository being examined
    tag_idx,           \* position of "for tag in tags[:10]"
    commit_info,       \* get_tag_commit_info(...) of the latest matched tag
    calls,             \* source queries issued so far, in order
    response,          \* what the handler returned or raised
    \* ---- the predicate alone ----
    probe,             \* tag name handed to the predicate
    verdict,           \* "untested" | "accept" | "reject"
    \* ---- transformer calls (src/data_transformer.py) ----
    datasets,          \* heap of top-level dataset dicts
    tagmaps,           \* heap of "tags" dicts (insertion-ordered)
    groups,            \* heap of tag-group dicts
    last_call          \* the most recent transformer call and its arguments' prior values

scanVars == <<endpoint, tag_version, include_patterns, version_pattern, max_results,
              pc, repos_data, repositories, git_repos, total_repos, tag_patterns,
              found_tags, repo_idx, tags, tag_idx, commit_info, calls, response>>
matchVars == <<probe, verdict>>
dataVars == <<datasets, tagmaps, groups, last_call>>
vars == <<scanVars, matchVars, dataVars>>

(***************************************************************************)
(* Bounds of the model.                                                    *)
(***************************************************************************)
MaxPatLen == 2      \* longest pattern handed to the predicate alone
MaxTagLen == 4      \* longest tag name handed to the predicate alone
MaxRepos == 2       \* longest repository enumeration
MaxTags == 2        \* longest tag list a repository returns
MaxCap == 2         \* largest max_results
MaxCalls == 4       \* transformer calls in one run

(***************************************************************************)
(* Text.                                                                   *)
(***************************************************************************)
\* Python's None, where a text is optional
None == <<"<None>">>

Date0101 == <<"2", "0", "2", "4", "-", "0", "1", "-", "0", "1", "T", "0", "0", ":", "0", "0", ":", "0", "0", "Z">>

Date0301 == <<"2", "0", "2", "4", "-", "0", "3", "-", "0", "1", "T", "0", "0", ":", "0", "0", ":", "0", "0", "Z">>

CommitSha == <<"9", "f", "c", "e", "b", "0", "2", "d", "0", "a", "e", "5">>

LocalCommitSha == <<"1", "b", "2", "e", "1", "d", "6", "3", "f", "f", "0", "b">>

AuthorName == <<"d", "e", "v">>

AuthorWithEmail == <<"d", "e", "v", " ", "<", "d", "@", "x", ".", "i", "o", ">">>

FirstLine == <<"r", "e", "l", "e", "a", "s", "e">>

Str(n, alphabet) == UNION {[1..k -> alphabet] : k \in 0..n}

\* str.startswith
StartsWith(s, prefix) ==
    /\ Len(prefix) <= Len(s)
    /\ SubSeq(s, 1, Len(prefix)) = prefix

Range(s) == {s[k] : k \in 1..Len(s)}

\* "x in list"
Contains(list, x) == x \in Range(list)

(***************************************************************************)
(* re.escape, the four f-string patterns and re.match                      *)
(* (scan_organization_for_patterns).                                       *)
(***************************************************************************)
\* the characters re.escape puts a backslash before
SpecialChars == {".", "^", "$", "*", "+", "?", "{", "}", "[", "]", "\\", "|", "(", ")",
                 "-", "&", "~", "#", " ", "\n"}

RECURSIVE re_escape_chars(_, _)
re_escape_chars(s, k) ==
    IF k > Len(s) THEN <<>>
    ELSE (IF s[k] \in SpecialChars THEN <<"\\", s[k]>> ELSE <<s[k]>>)
         \o re_escape_chars(s, k + 1)

\* a pattern used unescaped: "." stays a wildcard
re_escape_missing(s) == s

re_escape(s) == re_escape_chars(s, 1)

\* re.match(src, t) for the syntax the four patterns use: ^ $ . \c and literals;
\* the match is anchored at the start of t and need not reach its end
RECURSIVE re_match_from(_, _, _, _)
re_match_from(src, a, t, b) ==
    IF a > Len(src) THEN TRUE
    ELSE IF src[a] = "^" THEN b = 1 /\ re_match_from(src, a + 1, t, b)
    ELSE IF src[a] = "$"
        THEN /\ \/ b = Len(t) + 1
                \/ b = Len(t) /\ t[b] = "\n"
             /\ re_match_from(src, a + 1, t, b)
    ELSE IF src[a] = "\\"
        THEN /\ a + 1 <= Len(src)
             /\ b <= Len(t)
             /\ t[b] = src[a + 1]
             /\ re_match_from(src, a + 2, t, b + 1)
    ELSE IF src[a] = "."
        THEN /\ b <= Len(t)
             /\ t[b] # "\n"
             /\ re_match_from(src, a + 1, t, b + 1)
    ELSE /\ b <= Len(t)
         /\ t[b] = src[a]
         /\ re_match_from(src, a + 1, t, b + 1)

re_match(src, t) == re_match_from(src, 1, t, 1)

regex_patterns(pattern) ==
    LET escaped_pattern == re_escape(pattern)
    IN << <<"^">> \o escaped_pattern \o <<"\\", ".">>,
          <<"^", "v">> \o escaped_pattern \o <<"\\", ".">>,
          <<"^">> \o escaped_pattern \o <<"$">>,
          <<"^", "v">> \o escaped_pattern \o <<"$">> >>

\* any(re.match(pattern, tag) for pattern in regex_patterns)
TagMatches(pattern, tag) ==
    \E k \in 1..4 : re_match(regex_patterns(pattern)[k], tag)

(***************************************************************************)
(* Candidate lists of the exact-tag scans.                                 *)
(***************************************************************************)
\* scan_organization_for_tag
OrgTagPatterns(version, include) ==
    IF include /\ ~StartsWith(version, <<"v">>)
    THEN <<version, <<"v">> \o version>>
    ELSE <<version>>

\* scan_local_repository_for_tag
LocalTagPatterns(version) == <<version, <<"v">> \o version>>

\* the first candidate that is in the tag list, <<>> when there is none
RECURSIVE FirstHit(_, _, _)
FirstHit(patterns, taglist, k) ==
    IF k > Len(patterns) THEN <<>>
    ELSE IF Contains(taglist, patterns[k]) THEN <<patterns[k]>>
    ELSE FirstHit(patterns, taglist, k + 1)

(***************************************************************************)
(* Values of the variables a specification does not use.                   *)
(***************************************************************************)
ScanIdle ==
    /\ endpoint = "none"
    /\ tag_version = <<>>
    /\ include_patterns = FALSE
    /\ max_results = 0
    /\ pc = "idle"
    /\ repos_data = [kind |-> "pending"]
    /\ repositories = <<>>
    /\ git_repos = <<>>
    /\ total_repos = 0
    /\ tag_patterns = <<>>
    /\ found_tags = <<>>
    /\ repo_idx = 0
    /\ tags = <<>>
    /\ tag_idx = 0
    /\ commit_info = [unbound |-> TRUE]
    /\ calls = <<>>
    /\ response = [status |-> 0]

MatchIdle ==
    /\ probe = <<>>
    /\ verdict = "untested"

DataIdle ==
    /\ datasets = <<>>
    /\ tagmaps = <<>>
    /\ groups = <<>>
    /\ last_call = [op |-> "none"]

(***************************************************************************)
(* SpecMatch: the predicate of the pattern scan on one pattern and one tag *)
(* name.  Tag names are git ref names, which hold no control character.    *)
(***************************************************************************)
Alphabet == {"v", "0", "."}

\* the examples of the endpoint's documentation
ExamplePattern == <<"0", ".", "7", "5">>

ExampleTags ==
    { <<"0", ".", "7", "5", ".", "5">>, <<"v", "0", ".", "7", "5">>,
      <<"0", ".", "7", "5", "0">>, <<"0", "x", "7", "5">>,
      <<"v", "0", ".", "7", "5", ".", "5">>, <<"0", ".", "7", "5">> }

InitMatch ==
    /\ \/ /\ version_pattern \in Str(MaxPatLen, Alphabet) \ {<<>>}
          /\ probe \in Str(MaxTagLen, Alphabet)
       \/ /\ version_pattern = ExamplePattern
          /\ probe \in ExampleTags
    /\ verdict = "untested"
    /\ ScanIdle
    /\ DataIdle

\* if any(re.match(pattern, tag) for pattern in regex_patterns)
TestTag ==
    /\ verdict = "untested"
    /\ verdict' = IF TagMatches(version_pattern, probe) THEN "accept" ELSE "reject"
    /\ UNCHANGED <<probe, scanVars, dataVars>>

NextMatch == TestTag

SpecMatch == InitMatch /\ [][NextMatch]_vars

(***************************************************************************)
(* SpecScan: what the sources can answer.                                  *)
(***************************************************************************)
RepoNames == {"svc-a", "svc-b"}

Versions == { <<"1">>, <<"v", "1">> }

ScanPatterns == { <<"1">>, <<>> }

TagNames == { <<"1">>, <<"v", "1">>, <<"v", "v", "1">>, <<"1", ".", "0">> }

Distinct(list) == \A a, b \in 1..Len(list) : a # b => list[a] # list[b]

\* "gh repo list": the repositories of an organization, each once; the handlers
\* allow for an entry without a name
OrgRepoLists ==
    { list \in Str(MaxRepos, RepoNames \cup {""}) :
        \A a, b \in 1..Len(list) : (a # b /\ list[a] # "") => list[a] # list[b] }

RepoUrl(name) == <<"https://github.com/org", name>>

RepoDict(name) == [name |-> name, url |-> RepoUrl(name)]

\* directories holding a .git directory: distinct paths, whose last components
\* may be equal
LocalPaths == { <<"work", "svc-a">>, <<"archive", "svc-a">>, <<"work", "svc-b">> }

LocalRepoLists == { list \in Str(MaxRepos, LocalPaths) : Distinct(list) }

\* Path(repo_path).name
PathName(path) == path[Len(path)]

\* the "name" fields of the tags "gh api repos/.../tags" lists (a field may be empty)
RawTagLists == { list \in Str(MaxTags, TagNames \cup {<<>>}) : Distinct(list) }

\* a repository with more tags than the pattern scan looks at: the tags at
\* positions 10 and 11 both start with "1"
LongTagList ==
    << <<"0", ".", "1">>, <<"0", ".", "2">>, <<"v">>, <<"0", ".", "3">>, <<"0", ".", "4">>,
       <<"0", ".", "5">>, <<"0", ".", "6">>, <<"0", ".", "7">>, <<"0", ".", "8">>,
       <<"1">>, <<"1", ".", "0">> >>

\* the tags of a local repository
LocalTagLists == { list \in Str(MaxTags, TagNames) : Distinct(list) }

NotFound == "GitHub CLI error: gh: Not Found (HTTP 404)"

GhErrors == { NotFound, "GitHub CLI error: gh: Forbidden (HTTP 403)",
              "GitHub CLI command timed out" }

\* "404" in str(e.detail)
Has404(detail) == detail = NotFound

\* what run_gh_command gives for "gh repo list": a JSON list, another JSON
\* value, or an HTTPException
ReposAnswers ==
    { [kind |-> "list", repos |-> list, detail |-> ""] : list \in OrgRepoLists }
    \cup { [kind |-> "object", repos |-> <<>>, detail |-> ""] }
    \cup { [kind |-> "error", repos |-> <<>>, detail |-> d] : d \in GhErrors }

\* return repos_data if isinstance(repos_data, list) else []
get_repositories(answer) == IF answer.kind = "list" THEN answer.repos ELSE <<>>

\* what run_gh_command gives for the tags query: a JSON list, another JSON
\* value, or an HTTPException
TagsAnswers ==
    { [kind |-> "list", names |-> list, detail |-> ""] :
        list \in RawTagLists \cup {LongTagList} }
    \cup { [kind |-> "object", names |-> <<>>, detail |-> ""] }
    \cup { [kind |-> "error", names |-> <<>>, detail |-> d] : d \in GhErrors }

get_repository_tags(answer) ==
    IF answer.kind = "list"
    THEN [raised |-> FALSE, tags |-> SelectSeq(answer.names, LAMBDA n : n # <<>>)]
    ELSE IF answer.kind = "object" THEN [raised |-> FALSE, tags |-> <<>>]
    ELSE IF Has404(answer.detail) THEN [raised |-> FALSE, tags |-> <<>>]
    ELSE [raised |-> TRUE, tags |-> <<>>]

CommitDates == { Date0101, None }

\* what the two queries of get_tag_commit_info give: the tag reference (an
\* error, no object sha, or a sha) and the commit (an error, or its fields)
InfoAnswers ==
    { [ref |-> "error", commit |-> "unasked", date |-> None],
      [ref |-> "no_sha", commit |-> "unasked", date |-> None],
      [ref |-> "sha", commit |-> "error", date |-> None] }
    \cup { [ref |-> "sha", commit |-> "ok", date |-> d] : d \in CommitDates }

NoCommitInfo ==
    [is_none |-> TRUE, commit_sha |-> <<>>, author |-> None, date |-> None, message |-> None]

\* get_tag_commit_info without "if not commit_sha: return None"
get_tag_commit_info_unguarded(answer) ==
    IF answer.ref = "error" \/ (answer.ref = "sha" /\ answer.commit # "ok") THEN NoCommitInfo
    ELSE [is_none |-> FALSE,
          commit_sha |-> IF answer.ref = "sha" THEN CommitSha ELSE <<>>,
          author |-> AuthorName, date |-> answer.date, message |-> FirstLine]

get_tag_commit_info(answer) ==
    IF answer.ref # "sha" \/ answer.commit # "ok" THEN NoCommitInfo
    ELSE [is_none |-> FALSE, commit_sha |-> CommitSha,
          author |-> AuthorName, date |-> answer.date, message |-> FirstLine]

\* TagInfo(...) of the organization scans
OrgTagInfo(repo, tag, info) ==
    [tag_name |-> tag,
     commit_id |-> IF info.is_none THEN <<>> ELSE info.commit_sha,
     author |-> IF info.is_none THEN None ELSE info.author,
     date |-> IF info.is_none THEN None ELSE info.date,
     message |-> IF info.is_none THEN None ELSE info.message,
     repository_name |-> repo.name,
     repository_url |-> repo.url,
     tag_url |-> <<repo.url, "releases/tag", tag>>,
     repository_path |-> <<>>]

\* TagInfo(...) of scan_local_repository_for_tag
LocalTagInfo(repo_path, tag) ==
    [tag_name |-> tag,
     commit_id |-> LocalCommitSha,
     author |-> AuthorName,
     date |-> Date0101,
     message |-> FirstLine,
     repository_name |-> PathName(repo_path),
     repository_url |-> <<"file://", repo_path>>,
     tag_url |-> <<"file://", repo_path, ".git/refs/tags", tag>>,
     repository_path |-> repo_path]

\* the loop over tag_patterns without its "break"
MatchedCandidatesNoBreak(patterns, taglist) ==
    SelectSeq(patterns, LAMBDA c : Contains(taglist, c))

\* for pattern in tag_patterns: if pattern in tags: ...; break
MatchedCandidates(patterns, taglist) == FirstHit(patterns, taglist, 1)

RepoNamesIn(found) == { found[k].repository_name : k \in 1..Len(found) }

\* the count taken as the number of matches
RepositoriesWithTagByLength(ep, found) == Len(found)

\* repositories_with_tag of the returned ScanResult
RepositoriesWithTag(ep, found) ==
    IF ep = "org_patterns" THEN Cardinality(RepoNamesIn(found)) ELSE Len(found)

ScanResult(ep, total, found) ==
    [status |-> 200,
     total_repositories_scanned |-> total,
     repositories_with_tag |-> RepositoriesWithTag(ep, found),
     tags_found |-> found]

Raised(detail) == [status |-> 500, detail |-> detail]

\* the repository filter of the pattern scan without the cap
SkipRepositoryIgnoringCap(repo_name, found, cap) == repo_name = ""

\* the repository filter with ">" in place of ">="
SkipRepositoryCapOffByOne(repo_name, found, cap) == repo_name = "" \/ Len(found) > cap

\* if not repo_name or len(found_tags) >= max_results: continue
SkipRepository(repo_name, found, cap) == repo_name = "" \/ Len(found) >= cap

\* tags[:10]
TagWindow == 10

\* the whole tag list
WindowWholeList(taglist) == taglist

Window(taglist) == SubSeq(taglist, 1, IF Len(taglist) < TagWindow THEN Len(taglist) ELSE TagWindow)

(***************************************************************************)
(* SpecScan: one request to one of the three scan endpoints.               *)
(***************************************************************************)
IsOrg == endpoint \in {"org_tag", "org_patterns"}

InitScan ==
    /\ \/ /\ endpoint = "org_tag"
          /\ tag_version \in Versions
          /\ include_patterns \in BOOLEAN
          /\ version_pattern = <<>>
          /\ max_results = 0
       \/ /\ endpoint = "local_tag"
          /\ tag_version \in Versions
          /\ include_patterns = FALSE
          /\ version_pattern = <<>>
          /\ max_results = 0
       \/ /\ endpoint = "org_patterns"
          /\ tag_version = <<>>
          /\ include_patterns = FALSE
          /\ version_pattern \in ScanPatterns
          /\ max_results \in (-1)..MaxCap
    /\ pc = "check"
    /\ repos_data = [kind |-> "pending"]
    /\ repositories = <<>>
    /\ git_repos = <<>>
    /\ total_repos = 0
    /\ tag_patterns = <<>>
    /\ found_tags = <<>>
    /\ repo_idx = 0
    /\ tags = <<>>
    /\ tag_idx = 0
    /\ commit_info = [unbound |-> TRUE]
    /\ calls = <<>>
    /\ response = [status |-> 0]
    /\ MatchIdle
    /\ DataIdle

scanFrame == <<endpoint, tag_version, include_patterns, version_pattern, max_results>>

\* if not check_github_cli(): raise ... / if not check_git(): raise ...
CheckTool ==
    /\ pc = "check"
    /\ \/ /\ pc' = "done"
          /\ response' = Raised(IF IsOrg THEN "GitHub CLI not available or not authenticated"
                                ELSE "Git not available")
       \/ /\ pc' = "enumerate"
          /\ UNCHANGED response
    /\ UNCHANGED <<scanFrame, repos_data, repositories, git_repos, total_repos,
                   tag_patterns, found_tags, repo_idx, tags, tag_idx, commit_info, calls,
                   matchVars, dataVars>>

\* repositories = get_repositories(org_name) and the assignments before the loop
EnumerateOrg ==
    /\ pc = "enumerate"
    /\ IsOrg
    /\ \E answer \in ReposAnswers :
         /\ repos_data' = [kind |-> answer.kind]
         /\ IF answer.kind = "error"
            THEN /\ pc' = "done"
                 /\ response' = Raised(<<IF endpoint = "org_tag" THEN "Scan failed"
                                         ELSE "Pattern scan failed", answer.detail>>)
                 /\ UNCHANGED <<repositories, total_repos, found_tags, tag_patterns,
                                repo_idx>>
            ELSE LET list == get_repositories(answer)
                 IN /\ repositories' = [k \in 1..Len(list) |-> RepoDict(list[k])]
                    /\ total_repos' = Len(list)
                    /\ found_tags' = <<>>
                    /\ tag_patterns' = IF endpoint = "org_tag"
                                       THEN OrgTagPatterns(tag_version, include_patterns)
                                       ELSE <<>>
                    /\ repo_idx' = 1
                    /\ pc' = "loop"
                    /\ UNCHANGED response
    /\ UNCHANGED <<scanFrame, git_repos, tags, tag_idx, commit_info, calls, matchVars,
                   dataVars>>

\* git_repos = find_local_git_repositories(base_path)
EnumerateLocal ==
    /\ pc = "enumerate"
    /\ endpoint = "local_tag"
    /\ \E list \in LocalRepoLists :
         /\ git_repos' = list
         /\ total_repos' = Len(list)
    /\ found_tags' = <<>>
    /\ repo_idx' = 1
    /\ pc' = "loop"
    /\ UNCHANGED <<scanFrame, repos_data, repositories, tag_patterns, tags, tag_idx,
                   commit_info, calls, response, matchVars, dataVars>>

TagsCall(repo_name) == [op |-> "tags", repo |-> repo_name, tag |-> <<>>]

InfoCall(repo_name, tag) == [op |-> "info", repo |-> repo_name, tag |-> tag]

\* a query answered by running the command twice
IssueQueryWithRetry(log, call) == log \o <<call, call>>

\* run_gh_command runs the command once, whatever it answers
IssueQuery(log, call) == Append(log, call)

RECURSIVE IssueAll(_, _)
IssueAll(log, queries) ==
    IF queries = <<>> THEN log
    ELSE IssueAll(IssueQuery(log, Head(queries)), Tail(queries))

\* one iteration of "for repo in repositories" of scan_organization_for_tag
OrgTagRepo ==
    /\ pc = "loop"
    /\ endpoint = "org_tag"
    /\ repo_idx <= Len(repositories)
    /\ LET repo == repositories[repo_idx]
       IN \/ /\ repo.name = ""
             /\ repo_idx' = repo_idx + 1
             /\ UNCHANGED <<tags, found_tags, commit_info, calls, pc, response>>
          \/ /\ repo.name # ""
             /\ \E answer \in TagsAnswers :
                \E info \in IF MatchedCandidates(tag_patterns,
                                  get_repository_tags(answer).tags) = <<>>
                             THEN {CHOOSE a \in InfoAnswers : TRUE} ELSE InfoAnswers :
                  LET got == get_repository_tags(answer)
                      hits == MatchedCandidates(tag_patterns, got.tags)
                  IN IF got.raised
                     THEN /\ calls' = IssueQuery(calls, TagsCall(repo.name))
                          /\ pc' = "done"
                          /\ response' = Raised(<<"Scan failed", answer.detail>>)
                          /\ UNCHANGED <<tags, found_tags, commit_info, repo_idx>>
                     ELSE /\ tags' = got.tags
                          /\ commit_info' = IF hits = <<>> THEN commit_info
                                            ELSE get_tag_commit_info(info)
                          /\ found_tags' = found_tags \o
                                [k \in 1..Len(hits) |->
                                    OrgTagInfo(repo, hits[k], get_tag_commit_info(info))]
                          /\ calls' = IssueAll(calls, <<TagsCall(repo.name)>> \o
                                [k \in 1..Len(hits) |-> InfoCall(repo.name, hits[k])])
                          /\ repo_idx' = repo_idx + 1
                          /\ UNCHANGED <<pc, response>>
    /\ UNCHANGED <<scanFrame, repos_data, repositories, git_repos, total_repos,
                   tag_patterns, tag_idx, matchVars, dataVars>>

\* one iteration of "for repo_path in git_repos": scan_local_repository_for_tag
LocalRepo ==
    /\ pc = "loop"
    /\ endpoint = "local_tag"
    /\ repo_idx <= Len(git_repos)
    /\ LET repo_path == git_repos[repo_idx]
       IN \/ \* Repo(repo_path) raises: the function returns None
             /\ UNCHANGED <<tag_patterns, tags, found_tags>>
          \/ \E local_tags \in LocalTagLists :
               LET patterns == LocalTagPatterns(tag_version)
                   hits == MatchedCandidates(patterns, local_tags)
               IN /\ tag_patterns' = patterns
                  /\ tags' = local_tags
                  /\ found_tags' = found_tags \o
                        [k \in 1..(IF hits = <<>> THEN 0 ELSE 1) |->
                            LocalTagInfo(repo_path, hits[k])]
    /\ repo_idx' = repo_idx + 1
    /\ UNCHANGED <<scanFrame, repos_data, repositories, git_repos, total_repos, tag_idx,
                   commit_info, calls, pc, response, matchVars, dataVars>>

\* the head of "for repo in repositories" of scan_organization_for_patterns,
\* up to tags = get_repository_tags(org_name, repo_name)
PatternRepo ==
    /\ pc = "loop"
    /\ endpoint = "org_patterns"
    /\ repo_idx <= Len(repositories)
    /\ LET repo == repositories[repo_idx]
       IN IF SkipRepository(repo.name, found_tags, max_results)
          THEN /\ repo_idx' = repo_idx + 1
               /\ UNCHANGED <<tags, tag_idx, calls, pc, response>>
          ELSE \E answer \in TagsAnswers :
                 LET got == get_repository_tags(answer)
                 IN /\ calls' = IssueQuery(calls, TagsCall(repo.name))
                    /\ IF got.raised
                       THEN /\ pc' = "done"
                            /\ response' = Raised(<<"Pattern scan failed", answer.detail>>)
                            /\ UNCHANGED <<tags, tag_idx, repo_idx>>
                       ELSE /\ tags' = got.tags
                            /\ tag_idx' = 1
                            /\ pc' = "tags"
                            /\ UNCHANGED <<repo_idx, response>>
    /\ UNCHANGED <<scanFrame, repos_data, repositories, git_repos, total_repos,
                   tag_patterns, found_tags, commit_info, matchVars, dataVars>>

\* one iteration of "for tag in tags[:10]", or the end of that loop
PatternTag ==
    /\ pc = "tags"
    /\ LET repo == repositories[repo_idx]
           window == Window(tags)
       IN IF tag_idx > Len(window) \/ Len(found_tags) >= max_results
          THEN /\ repo_idx' = repo_idx + 1
               /\ pc' = "loop"
               /\ UNCHANGED <<found_tags, tag_idx, commit_info, calls>>
          ELSE /\ tag_idx' = tag_idx + 1
               /\ IF TagMatches(version_pattern, window[tag_idx])
                  THEN \E info \in InfoAnswers :
                         /\ calls' = IssueQuery(calls, InfoCall(repo.name, window[tag_idx]))
                         /\ commit_info' = get_tag_commit_info(info)
                         /\ found_tags' = Append(found_tags,
                               OrgTagInfo(repo, window[tag_idx], get_tag_commit_info(info)))
                  ELSE UNCHANGED <<found_tags, commit_info, calls>>
               /\ UNCHANGED <<repo_idx, pc>>
    /\ UNCHANGED <<scanFrame, repos_data, repositories, git_repos, total_repos,
                   tag_patterns, tags, response, matchVars, dataVars>>

\* return ScanResult(...)
Finish ==
    /\ pc = "loop"
    /\ repo_idx > (IF IsOrg THEN Len(repositories) ELSE Len(git_repos))
    /\ pc' = "done"
    /\ response' = ScanResult(endpoint, total_repos, found_tags)
    /\ UNCHANGED <<scanFrame, repos_data, repositories, git_repos, total_repos,
                   tag_patterns, found_tags, repo_idx, tags, tag_idx, commit_info, calls,
                   matchVars, dataVars>>

NextScan ==
    \/ CheckTool
    \/ EnumerateOrg
    \/ EnumerateLocal
    \/ OrgTagRepo
    \/ LocalRepo
    \/ PatternRepo
    \/ PatternTag
    \/ Finish

SpecScan == InitScan /\ [][NextScan]_vars

(***************************************************************************)
(* Properties of the scans.                                                *)
(***************************************************************************)
Last(list) == list[Len(list)]

Returned == pc = "done" /\ response.status = 200

\* C2: in an organization scan, once a repository has been queried, no failure
\* of a tag-list or commit-info lookup aborts the scan: the handler ends by
\* returning a ScanResult.
C2_LookupFailureNeverAborts ==
    (IsOrg /\ pc = "done" /\ calls # <<>>) => response.status = 200

C7_CapStopsQueries ==
    [][(endpoint = "org_patterns" /\ pc \in {"loop", "tags"}
            /\ Len(found_tags) >= max_results)
        => (calls' = calls /\ found_tags' = found_tags)]_vars

\* the cap is reached while a named repository is still to come
C7_Witness ==
    /\ endpoint = "org_patterns"
    /\ pc = "loop"
    /\ max_results >= 1
    /\ Len(found_tags) >= max_results
    /\ repo_idx <= Len(repositories)
    /\ repositories[repo_idx].name # ""

IsExact == endpoint \in {"org_tag", "local_tag"}

C9_CandidateList ==
    tag_patterns # <<>> =>
        tag_patterns =
            IF (endpoint = "local_tag" \/ include_patterns)
                /\ ~StartsWith(tag_version, <<"v">>)
            THEN <<tag_version, <<"v">> \o tag_version>>
            ELSE <<tag_version>>

\* C10: the predicate accepts a tag name exactly when it is the pattern, or "v"
\* and the pattern, or starts with the pattern and "." or with "v", the pattern
\* and ".", the pattern being compared character by character.
C10_PredicateIsLiteralPrefixRule ==
    verdict # "untested" =>
        /\ verdict = "accept" <=>
              \/ probe = version_pattern
              \/ probe = <<"v">> \o version_pattern
              \/ StartsWith(probe, version_pattern \o <<".">>)
              \/ StartsWith(probe, <<"v">> \o version_pattern \o <<".">>)
        /\ (version_pattern = ExamplePattern /\ probe = <<"0", ".", "7", "5", "0">>)
              => verdict = "reject"

\* pattern "0.75" was tested against "0.75.5" and accepted it
C10_Witness ==
    /\ version_pattern = ExamplePattern
    /\ probe = <<"0", ".", "7", "5", ".", "5">>
    /\ verdict = "accept"

\* C11: a pattern scan given the empty pattern fails before a repository is
\* queried: it asks for no tag list and no commit, records no match, and its
\* outcome is an error, never a ScanResult.
C11_EmptyPatternRejected ==
    (endpoint = "org_patterns" /\ version_pattern = <<>>) =>
        /\ calls = <<>>
        /\ found_tags = <<>>
        /\ pc = "done" => response.status = 500

\* C17: a match is recorded for a tag of the repository's tag list, after one
\* commit-info lookup for that repository and tag; its commit_id is empty
\* exactly when that lookup returned nothing and is the non-empty sha the
\* lookup returned otherwise (a local match always has its commit); the
\* returned ScanResult holds and counts every recorded match, those with an
\* empty commit_id included.
C17_EmptyCommitIdOnlyAfterFailedLookup ==
    [][ /\ (IsOrg /\ Len(found_tags') > Len(found_tags)) =>
              LET m == Last(found_tags')
              IN /\ Len(found_tags') = Len(found_tags) + 1
                 /\ Contains(tags', m.tag_name)
                 /\ Last(calls') = InfoCall(m.repository_name, m.tag_name)
                 /\ commit_info'.is_none <=> m.commit_id = <<>>
                 /\ ~commit_info'.is_none =>
                       /\ m.commit_id = commit_info'.commit_sha
                       /\ m.commit_id # <<>>
        /\ (endpoint = "local_tag" /\ Len(found_tags') > Len(found_tags)) =>
              Last(found_tags').commit_id # <<>>
        /\ (pc' = "done" /\ response'.status = 200) =>
              /\ response'.tags_found = found_tags
              /\ \A k \in 1..Len(found_tags) :
                    found_tags[k].commit_id = <<>> =>
                       /\ Contains(response'.tags_found, found_tags[k])
                       /\ response'.repositories_with_tag >= 1
              /\ IsOrg => response'.repositories_with_tag =
                             Cardinality(RepoNamesIn(found_tags))
      ]_vars

\* an organization scan returned two matches, one with its commit and one
\* whose commit lookup returned nothing, and counted both repositories
C17_Witness ==
    /\ Returned
    /\ IsOrg
    /\ Len(response.tags_found) = 2
    /\ response.tags_found[1].commit_id = <<>>
    /\ response.tags_found[2].commit_id = CommitSha
    /\ response.repositories_with_tag = 2

\* the enumeration of the scan answered with the list of repositories
Enumerated == IF IsOrg THEN repos_data.kind = "list" ELSE repo_idx >= 1

\* C18: a scan whose enumeration succeeded and that recorded no match ends
\* with a ScanResult of no matches and a count of 0; a scan whose enumeration
\* failed ends with an error; a ScanResult never follows a failed enumeration.
C18_NoMatchIsSuccessFailureIsError ==
    pc = "done" =>
        /\ (Enumerated /\ found_tags = <<>>) =>
              /\ response.status = 200
              /\ response.tags_found = <<>>
              /\ response.repositories_with_tag = 0
        /\ repos_data.kind = "error" => response.status = 500
        /\ response.status = 200 => repos_data.kind # "error"

\* C19: when the pattern scan leaves a repository, the matches it recorded for
\* it are the tags among the first 10 of its tag list that the predicate
\* accepts, in tag-list order, as many as the cap left room for; the loop
\* never stands beyond the 11th tag.
C19_OnlyFirstTenTagsTested ==
    [][ (endpoint = "org_patterns" /\ pc = "tags" /\ pc' = "loop") =>
          LET name == repositories[repo_idx].name
              mine == SelectSeq(found_tags', LAMBDA m : m.repository_name = name)
              first_ten == SubSeq(tags, 1, IF Len(tags) < 10 THEN Len(tags) ELSE 10)
              matching == SelectSeq(first_ten, LAMBDA t : TagMatches(version_pattern, t))
              room == max_results - (Len(found_tags') - Len(mine))
          IN /\ [k \in 1..Len(mine) |-> mine[k].tag_name] =
                   SubSeq(matching, 1, IF Len(matching) < room THEN Len(matching) ELSE room)
             /\ tag_idx <= 11
      ]_vars

\* the pattern scan left a repository whose 10th and 11th tags both match,
\* with the match of the 10th, none of the 11th, and the cap not reached
C19_Witness ==
    /\ endpoint = "org_patterns"
    /\ pc = "loop"
    /\ Len(tags) > 10
    /\ TagMatches(version_pattern, tags[10])
    /\ TagMatches(version_pattern, tags[11])
    /\ Len(found_tags) < max_results
    /\ \E k \in 1..Len(found_tags) : found_tags[k].tag_name = tags[10]
    /\ \A k \in 1..Len(found_tags) : found_tags[k].tag_name # tags[11]

\* the place of a repository in the enumeration
RepoPosition(name) == CHOOSE k \in 1..Len(repositories) : repositories[k].name = name

\* C20: in an organization scan no query is issued twice (one tag-list query
\* for a repository, one commit-info query for a repository and tag), a
\* commit-info query follows the tag-list query of its repository, and the
\* queries follow the order of the enumeration.
C20_EachLookupOnceInOrder ==
    IsOrg =>
        /\ \A a, b \in 1..Len(calls) : a # b => calls[a] # calls[b]
        /\ \A b \in 1..Len(calls) :
              calls[b].op = "info" =>
                 \E a \in 1..(b - 1) : calls[a] = TagsCall(calls[b].repo)
        /\ \A a, b \in 1..Len(calls) :
              a < b =>
                 /\ RepoPosition(calls[a].repo) <= RepoPosition(calls[b].repo)
                 /\ (calls[a].op = "tags" /\ calls[b].op = "tags") =>
                       RepoPosition(calls[a].repo) < RepoPosition(calls[b].repo)

\* a scan of two repositories ended after the tag list of the first came back
\* empty and the commit lookup of the second's match returned nothing, each
\* asked once
C20_Witness ==
    /\ Returned
    /\ IsOrg
    /\ Len(repositories) = 2
    /\ calls = << TagsCall(repositories[1].name), TagsCall(repositories[2].name),
                  InfoCall(repositories[2].name, found_tags[1].tag_name) >>
    /\ found_tags[1].commit_id = <<>>

\* C21: in a pattern scan found_tags never holds more than max_results matches
\* when max_results >= 0, nor does the returned tags_found; with
\* max_results <= 0 no query is issued and no match recorded, and the scan,
\* once the enumeration has answered, returns a ScanResult with empty
\* tags_found whose total_repositories_scanned is the number of repositories
\* enumerated.
C21_CapNeverExceeded ==
    endpoint = "org_patterns" =>
        /\ max_results >= 0 =>
              /\ Len(found_tags) <= max_results
              /\ Returned => Len(response.tags_found) <= max_results
        /\ max_results <= 0 =>
              /\ calls = <<>>
              /\ found_tags = <<>>
              /\ (pc = "done" /\ repos_data.kind \in {"list", "object"}) =>
                    /\ response.status = 200
                    /\ response.tags_found = <<>>
                    /\ response.total_repositories_scanned = Len(repositories)

\* the cap is reached inside a repository whose next tag the predicate accepts
C21_Witness ==
    /\ endpoint = "org_patterns"
    /\ pc = "tags"
    /\ max_results >= 1
    /\ Len(found_tags) = max_results
    /\ tag_idx <= Len(Window(tags))
    /\ TagMatches(version_pattern, tags[tag_idx])

(***************************************************************************)
(* SpecData: the values of src/data_transformer.py.                        *)
(***************************************************************************)
\* dict.get(key, default)
Get(dict, key, default) == IF key \in DOMAIN dict THEN dict[key] ELSE default

\* the truth value Python gives a text or None
Truthy(text) == text # <<>> /\ text # None

Unknown == <<"u", "n", "k", "n", "o", "w", "n">>

\* the characters of the dates, in code-point order
CharOrder == <<"-", "0", "1", "2", "3", "4", "5", "6", "7", "8", "9", ":", "T", "Z">>

Ord(c) == CHOOSE k \in 1..Len(CharOrder) : CharOrder[k] = c

\* a < b for two texts, as Python compares str
RECURSIVE StrLess(_, _)
StrLess(a, b) ==
    IF b = <<>> THEN FALSE
    ELSE IF a = <<>> THEN TRUE
    ELSE IF Head(a) # Head(b) THEN Ord(Head(a)) < Ord(Head(b))
    ELSE StrLess(Tail(a), Tail(b))

\* max(texts): the first of the largest elements
RECURSIVE MaxFrom(_, _, _)
MaxFrom(texts, k, best) ==
    IF k > Len(texts) THEN best
    ELSE MaxFrom(texts, k + 1, IF StrLess(best, texts[k]) THEN texts[k] ELSE best)

\* the first of the dates in place of the largest
MaxOrEmptyFirst(texts) == IF texts = <<>> THEN <<>> ELSE texts[1]

\* max(dates) if dates else ""
MaxOrEmpty(texts) == IF texts = <<>> THEN <<>> ELSE MaxFrom(texts, 2, texts[1])

\* str.find, counted from 1; 0 when absent
Find(text, c) ==
    IF \E k \in 1..Len(text) : text[k] = c
    THEN CHOOSE k \in 1..Len(text) : text[k] = c /\ \A m \in 1..(k - 1) : text[m] # c
    ELSE 0

\* _extract_email_from_author: "<" in author raises TypeError when author is None
ExtractEmailRaises(author) == author = None

_extract_email_from_author(author) ==
    IF Find(author, "<") # 0 /\ Find(author, ">") # 0
    THEN IF Find(author, "<") < Find(author, ">") - 1
         THEN SubSeq(author, Find(author, "<") + 1, Find(author, ">") - 1)
         ELSE None
    ELSE None

\* commit_id[:7] if commit_id else ""
CommitShort(commit_id) ==
    IF Truthy(commit_id)
    THEN SubSeq(commit_id, 1, IF Len(commit_id) < 7 THEN Len(commit_id) ELSE 7)
    ELSE <<>>

\* transformed_repo = {...}
TransformedRepo(repo) ==
    [repository_name |-> Get(repo, "repository_name", ""),
     commit_id |-> Get(repo, "commit_id", <<>>),
     commit_short |-> CommitShort(Get(repo, "commit_id", <<>>)),
     author |-> Get(repo, "author", <<>>),
     author_email |-> _extract_email_from_author(Get(repo, "author", <<>>)),
     date |-> Get(repo, "date", <<>>),
     message |-> Get(repo, "message", <<>>),
     repository_url |-> Get(repo, "repository_url", <<>>),
     tag_url |-> Get(repo, "tag_url", <<>>),
     deployment_status |-> "unknown",
     environment |-> "unknown",
     repository_path |-> Get(repo, "repository_path", None)]

TagNameOf(tag_info) == Get(tag_info, "tag_name", Unknown)

\* the keys of tag_groups, in the order the loop over tags_found first meets them
RECURSIVE FirstSeen(_, _, _)
FirstSeen(tags_found, k, seen) ==
    IF k > Len(tags_found) THEN seen
    ELSE FirstSeen(tags_found, k + 1,
                   IF Contains(seen, TagNameOf(tags_found[k])) THEN seen
                   ELSE Append(seen, TagNameOf(tags_found[k])))

\* tags_dict[tag_name] = {...}
TagGroup(tag_name, tags_found) ==
    LET repos == SelectSeq(tags_found, LAMBDA t : TagNameOf(t) = tag_name)
        transformed_repos == [k \in 1..Len(repos) |-> TransformedRepo(repos[k])]
        dated == SelectSeq(transformed_repos, LAMBDA r : Truthy(r.date))
        dates == [k \in 1..Len(dated) |-> dated[k].date]
    IN [tag_name |-> tag_name,
        repositories |-> transformed_repos,
        summary |-> [total_repositories |-> Len(transformed_repos),
                     latest_commit_date |-> MaxOrEmpty(dates),
                     deployment_environments |->
                        { transformed_repos[k].environment : k \in 1..Len(transformed_repos) }
                        \ {"unknown"}]]

\* a "tags" dict with its groups: the sequence of its items, in dict order
Keys(tags_dict) == { tags_dict[k].key : k \in 1..Len(tags_dict) }

\* set(repo["repository_name"] for repo in all_repos)
UniqueRepos(tags_dict) ==
    UNION { { tags_dict[k].group.repositories[m].repository_name :
                m \in 1..Len(tags_dict[k].group.repositories) } :
            k \in 1..Len(tags_dict) }

\* max(tag_counts, key=tag_counts.get): the first key, in dict order, of the largest count
RECURSIVE MaxCountFrom(_, _, _)
MaxCountFrom(tags_dict, k, best) ==
    IF k > Len(tags_dict) THEN tags_dict[best].key
    ELSE MaxCountFrom(tags_dict, k + 1,
            IF tags_dict[k].group.summary.total_repositories
                 > tags_dict[best].group.summary.total_repositories
            THEN k ELSE best)

\* the largest count, the last key winning a tie
RECURSIVE MaxCountLastFrom(_, _, _)
MaxCountLastFrom(tags_dict, k, best) ==
    IF k > Len(tags_dict) THEN tags_dict[best].key
    ELSE MaxCountLastFrom(tags_dict, k + 1,
            IF tags_dict[k].group.summary.total_repositories
                 >= tags_dict[best].group.summary.total_repositories
            THEN k ELSE best)

\* all_dates and max(all_dates) if all_dates else ""
LatestTagDate(tags_dict) ==
    LET dated == SelectSeq(tags_dict, LAMBDA e : Truthy(e.group.summary.latest_commit_date))
    IN MaxOrEmpty([k \in 1..Len(dated) |-> dated[k].group.summary.latest_commit_date])

\* the statistics of a transform with the tie of most_common_tag going to the last key
statistics_of_last_wins(tags_dict) ==
    [total_unique_tags |-> Len(tags_dict),
     total_repositories_with_tags |-> Cardinality(UniqueRepos(tags_dict)),
     most_common_tag |-> IF tags_dict = <<>> THEN <<>> ELSE MaxCountLastFrom(tags_dict, 2, 1),
     latest_tag_date |-> LatestTagDate(tags_dict)]

\* "Calculate statistics" of transform_api_response
statistics_of(tags_dict) ==
    [total_unique_tags |-> Len(tags_dict),
     total_repositories_with_tags |-> Cardinality(UniqueRepos(tags_dict)),
     most_common_tag |-> IF tags_dict = <<>> THEN <<>> ELSE MaxCountFrom(tags_dict, 2, 1),
     latest_tag_date |-> LatestTagDate(tags_dict)]

\* the statistics of a merge with the tie of most_common_tag going to the last key
merge_statistics_last_wins(tags_dict) ==
    [total_unique_tags |-> Len(tags_dict),
     total_repositories_with_tags |-> Cardinality(UniqueRepos(tags_dict)),
     most_common_tag |-> IF tags_dict = <<>> THEN <<>> ELSE MaxCountLastFrom(tags_dict, 2, 1),
     latest_tag_date |-> LatestTagDate(tags_dict)]

\* "Recalculate statistics" of merge_scan_results
merge_statistics(tags_dict) ==
    [total_unique_tags |-> Len(tags_dict),
     total_repositories_with_tags |-> Cardinality(UniqueRepos(tags_dict)),
     most_common_tag |-> IF tags_dict = <<>> THEN <<>> ELSE MaxCountFrom(tags_dict, 2, 1),
     latest_tag_date |-> LatestTagDate(tags_dict)]

HasKey(dict_items, key) == \E k \in 1..Len(dict_items) : dict_items[k].key = key

ItemOf(dict_items, key) == dict_items[CHOOSE k \in 1..Len(dict_items) : dict_items[k].key = key]

\* an update that keeps the value of a key already present
DictUpdateKeepExisting(target, source) ==
    target \o SelectSeq(source, LAMBDA e : ~HasKey(target, e.key))

\* dict.update: a key already present keeps its place and takes the new value,
\* a new key is added at the end
DictUpdate(target, source) ==
    [k \in 1..Len(target) |->
        IF HasKey(source, target[k].key) THEN ItemOf(source, target[k].key) ELSE target[k]]
    \o SelectSeq(source, LAMBDA e : ~HasKey(target, e.key))

(***************************************************************************)
(* SpecData: the inputs of the calls.                                      *)
(***************************************************************************)
TagA == <<"1">>

TagB == <<"1", ".", "0">>

\* one element of "tags_found", as the scan endpoints serialize a TagInfo
Match(tag, repo, date, author) ==
    [tag_name |-> tag,
     commit_id |-> IF author = None THEN <<>> ELSE CommitSha,
     author |-> author,
     date |-> date,
     message |-> IF author = None THEN None ELSE FirstLine,
     repository_name |-> repo,
     repository_url |-> RepoUrl(repo),
     tag_url |-> <<RepoUrl(repo), "releases/tag", tag>>,
     repository_path |-> None]

ApiResponse(found) ==
    [total_repositories_scanned |-> 2,
     repositories_with_tag |-> Cardinality(RepoNamesIn(found)),
     tags_found |-> found,
     scan_duration_seconds |-> 1]

\* an element of "tags_found" that lacks "tag_name" and "repository_name"
MatchWithoutNames ==
    [commit_id |-> CommitSha, author |-> AuthorName, date |-> Date0101,
     message |-> FirstLine]

ApiResponses ==
    { ApiResponse(<< Match(TagA, "svc-a", Date0101, AuthorName),
                     Match(TagA, "svc-b", Date0301, AuthorWithEmail) >>),
      ApiResponse(<< Match(TagB, "svc-a", Date0301, AuthorName) >>),
      ApiResponse(<< Match(TagB, "svc-b", None, AuthorName),
                     Match(TagA, "svc-b", Date0101, AuthorName) >>),
      ApiResponse(<< >>),
      \* a match whose commit lookup failed: author, date and message are null
      ApiResponse(<< Match(TagA, "svc-a", None, None) >>),
      \* a local scan of two repositories whose directories have one name
      ApiResponse(<< Match(TagA, "svc-a", Date0101, AuthorName),
                     Match(TagA, "svc-a", Date0301, AuthorName) >>),
      [total_repositories_scanned |-> 2, repositories_with_tag |-> 1,
       tags_found |-> << MatchWithoutNames >>, scan_duration_seconds |-> 1] }

DeploymentConfigs ==
    { ("svc-a" :> [deployed_versions |->
                     (TagA :> [status |-> "deployed", environment |-> "production"])]),
      ("svc-b" :> [deployed_versions |-> (TagB :> [status |-> "deployed"])]) }

(***************************************************************************)
(* SpecData: the calls.  A dataset, its "tags" dict and each tag group are *)
(* Python objects: datasets[d].tags is the index in tagmaps of the dict    *)
(* the dataset refers to, and an item of that dict holds the index in      *)
(* groups of its tag group.  Two datasets that refer to one "tags" dict    *)
(* see each other's updates.                                               *)
(***************************************************************************)
\* the items of a "tags" dict with the groups they refer to
TagsValue(tagmap, heap) ==
    [k \in 1..Len(tagmap) |-> [key |-> tagmap[k].key, group |-> heap[tagmap[k].group]]]

\* what a reader of dataset d sees
DatasetValue(d) ==
    [metadata |-> datasets[d].metadata,
     tags |-> TagsValue(tagmaps[datasets[d].tags], groups),
     statistics |-> datasets[d].statistics]

NoValue == [metadata |-> <<>>, tags |-> <<>>, statistics |-> <<>>]

NoCall ==
    [op |-> "none", seq |-> 0, raised |-> FALSE, existing |-> 0, incoming |-> 0,
     result |-> 0, before_existing |-> NoValue, before_incoming |-> NoValue,
     tags_found |-> <<>>, deployment_config |-> <<>>]

InitData ==
    /\ datasets = <<>>
    /\ tagmaps = <<>>
    /\ groups = <<>>
    /\ last_call = NoCall
    /\ ScanIdle
    /\ version_pattern = <<>>
    /\ MatchIdle

\* transformer.transform_api_response(api_response, organization, "specific_tag")
TransformApiResponse ==
    /\ last_call.seq < MaxCalls
    /\ \E api_response \in ApiResponses :
         LET tags_found == Get(api_response, "tags_found", <<>>)
             names == FirstSeen(tags_found, 1, <<>>)
             metadata == [last_updated |-> last_call.seq + 1,
                          scan_duration_seconds |->
                              Get(api_response, "scan_duration_seconds", 0),
                          organization |-> "aira-technology",
                          total_repositories_scanned |->
                              Get(api_response, "total_repositories_scanned", 0),
                          scan_type |-> "specific_tag",
                          version |-> "1.0.0"]
             new_groups == [k \in 1..Len(names) |-> TagGroup(names[k], tags_found)]
             tags_dict == [k \in 1..Len(names) |->
                              [key |-> names[k], group |-> Len(groups) + k]]
         IN IF \E k \in 1..Len(tags_found) :
                    ExtractEmailRaises(Get(tags_found[k], "author", <<>>))
            THEN /\ last_call' = [NoCall EXCEPT !.op = "transform",
                                                !.seq = last_call.seq + 1,
                                                !.tags_found = tags_found,
                                                !.raised = TRUE]
                 /\ UNCHANGED <<datasets, tagmaps, groups>>
            ELSE /\ groups' = groups \o new_groups
                 /\ tagmaps' = Append(tagmaps, tags_dict)
                 /\ datasets' = Append(datasets,
                       [metadata |-> metadata,
                        tags |-> Len(tagmaps) + 1,
                        statistics |-> statistics_of(TagsValue(tags_dict, groups'))])
                 /\ last_call' = [NoCall EXCEPT !.op = "transform",
                                                !.seq = last_call.seq + 1,
                                                !.tags_found = tags_found,
                                                !.result = Len(datasets) + 1]
    /\ UNCHANGED <<scanVars, matchVars>>

\* the first loop with a repository that is not in the config marked "not_deployed"
EnhancedRepoAbsentNotDeployed(repo, tag_name, deployment_config) ==
    LET repo_config == Get(deployment_config, repo.repository_name, <<>>)
        deployed_versions == Get(repo_config, "deployed_versions", <<>>)
    IN IF tag_name \in DOMAIN deployed_versions
       THEN [repo EXCEPT
               !.deployment_status = Get(deployed_versions[tag_name], "status", "unknown"),
               !.environment = Get(deployed_versions[tag_name], "environment", "unknown")]
       ELSE [repo EXCEPT !.deployment_status = "not_deployed", !.environment = "none"]

\* the first loop of enhance_with_deployment_info, for one record of the group
\* stored under tag_name
EnhancedRepo(repo, tag_name, deployment_config) ==
    IF repo.repository_name \in DOMAIN deployment_config
    THEN LET repo_config == deployment_config[repo.repository_name]
             deployed_versions == Get(repo_config, "deployed_versions", <<>>)
         IN IF tag_name \in DOMAIN deployed_versions
            THEN [repo EXCEPT
                    !.deployment_status = Get(deployed_versions[tag_name], "status", "unknown"),
                    !.environment = Get(deployed_versions[tag_name], "environment", "unknown")]
            ELSE [repo EXCEPT !.deployment_status = "not_deployed", !.environment = "none"]
    ELSE repo

\* both loops of enhance_with_deployment_info, for one tag group
EnhancedGroup(group, tag_name, deployment_config) ==
    LET repos == [k \in 1..Len(group.repositories) |->
                     EnhancedRepo(group.repositories[k], tag_name, deployment_config)]
    IN [group EXCEPT
          !.repositories = repos,
          !.summary.deployment_environments =
              { repos[k].environment : k \in 1..Len(repos) } \ {"unknown", "none"}]

\* transformer.enhance_with_deployment_info(data, deployment_config): the
\* groups are changed in place and data itself is returned
EnhanceWithDeploymentInfo ==
    /\ last_call.seq < MaxCalls
    /\ \E data \in 1..Len(datasets), deployment_config \in DeploymentConfigs :
         LET tagmap == tagmaps[datasets[data].tags]
         IN /\ groups' = [g \in 1..Len(groups) |->
                            IF \E k \in 1..Len(tagmap) : tagmap[k].group = g
                            THEN EnhancedGroup(groups[g],
                                    tagmap[CHOOSE k \in 1..Len(tagmap) :
                                              tagmap[k].group = g].key,
                                    deployment_config)
                            ELSE groups[g]]
            /\ last_call' = [NoCall EXCEPT !.op = "enhance",
                                           !.seq = last_call.seq + 1,
                                           !.existing = data,
                                           !.result = data,
                                           !.deployment_config = deployment_config,
                                           !.before_existing = DatasetValue(data)]
    /\ UNCHANGED <<datasets, tagmaps, scanVars, matchVars>>

\* transformer.merge_scan_results(existing_data, new_data)
MergeScanResults ==
    /\ last_call.seq < MaxCalls
    /\ \E existing_data \in 1..Len(datasets), new_data \in 1..Len(datasets) :
         LET shared == datasets[existing_data].tags
             merged_tags == DictUpdate(tagmaps[shared], tagmaps[datasets[new_data].tags])
         IN \* merged_data = existing_data.copy() copies the outer dict only:
            \* merged_data["tags"] is existing_data["tags"], which update() changes
            /\ tagmaps' = [tagmaps EXCEPT ![shared] = merged_tags]
            /\ datasets' = Append(datasets,
                  [metadata |-> datasets[new_data].metadata,
                   tags |-> shared,
                   statistics |-> merge_statistics(TagsValue(merged_tags, groups))])
            /\ last_call' = [NoCall EXCEPT !.op = "merge",
                                           !.seq = last_call.seq + 1,
                                           !.existing = existing_data,
                                           !.incoming = new_data,
                                           !.result = Len(datasets) + 1,
                                           !.before_existing = DatasetValue(existing_data),
                                           !.before_incoming = DatasetValue(new_data)]
    /\ UNCHANGED <<groups, scanVars, matchVars>>

NextData ==
    \/ TransformApiResponse
    \/ EnhanceWithDeploymentInfo
    \/ MergeScanResults

SpecData == InitData /\ [][NextData]_vars

(***************************************************************************)
(* Properties of the transformer calls.                                    *)
(***************************************************************************)
Merged == last_call.op = "merge"

\* the "tags" of a dataset value as a mapping, whatever the order of its keys
GroupOf(tags_value, key) ==
    tags_value[CHOOSE k \in 1..Len(tags_value) : tags_value[k].key = key].group

\* C1: a merge leaves both its arguments as they were: after the call the
\* metadata, tags and statistics of existing and of incoming read as before it.
C1_MergeLeavesArgumentsUnchanged ==
    Merged =>
        /\ DatasetValue(last_call.existing) = last_call.before_existing
        /\ DatasetValue(last_call.incoming) = last_call.before_incoming

\* the counts and dates a dataset's statistics must show, given its tags
StatisticsFollowTags(statistics, tags_value) ==
    LET counts == [k \in 1..Len(tags_value) |-> Len(tags_value[k].group.repositories)]
        group_dates == { tags_value[k].group.summary.latest_commit_date :
                            k \in 1..Len(tags_value) } \ {<<>>, None}
    IN /\ statistics.total_unique_tags = Cardinality(Keys(tags_value))
       /\ statistics.total_repositories_with_tags =
             Cardinality({ name \in RepoNames \cup {""} :
                \E k \in 1..Len(tags_value) :
                   \E m \in 1..Len(tags_value[k].group.repositories) :
                      tags_value[k].group.repositories[m].repository_name = name })
       /\ IF tags_value = <<>>
          THEN statistics.most_common_tag = <<>>
          ELSE \E k \in 1..Len(tags_value) :
                  /\ statistics.most_common_tag = tags_value[k].key
                  /\ \A m \in 1..Len(tags_value) : counts[m] <= counts[k]
       /\ IF group_dates = {}
          THEN statistics.latest_tag_date = <<>>
          ELSE /\ statistics.latest_tag_date \in group_dates
               /\ \A d \in group_dates : ~StrLess(statistics.latest_tag_date, d)

\* C3: the dataset a transform, enhance or merge call returns shows statistics
\* that are those of its own tags.
C3_ReturnedStatisticsFollowTags ==
    (last_call.op \in {"transform", "enhance", "merge"} /\ ~last_call.raised) =>
        StatisticsFollowTags(DatasetValue(last_call.result).statistics,
                             DatasetValue(last_call.result).tags)

\* C4: the tags of merge(A, B) have the keys of A and of B; a tag of B has B's
\* whole group, a tag of A alone has A's group.
C4_MergeIsRightBiasedUnion ==
    Merged =>
        LET result == DatasetValue(last_call.result).tags
            a == last_call.before_existing.tags
            b == last_call.before_incoming.tags
        IN /\ Keys(result) = Keys(a) \cup Keys(b)
           /\ Len(result) = Cardinality(Keys(result))
           /\ \A t \in Keys(b) : GroupOf(result, t) = GroupOf(b, t)
           /\ \A t \in Keys(a) \ Keys(b) : GroupOf(result, t) = GroupOf(a, t)

\* a merge replaced a group of A by a different group of B and kept a tag of A alone
C4_Witness ==
    /\ Merged
    /\ \E t \in Keys(last_call.before_existing.tags) \cap Keys(last_call.before_incoming.tags) :
          GroupOf(last_call.before_existing.tags, t)
              # GroupOf(last_call.before_incoming.tags, t)
    /\ Keys(last_call.before_existing.tags) \ Keys(last_call.before_incoming.tags) # {}

\* D is valid: its statistics are those of its tags
Valid(value) == value.statistics = statistics_of(value.tags)

\* C5: merging a valid dataset D with itself (or with a dataset of the same
\* tags) returns the tags of D, group by group, and the statistics of D.
C5_MergeIdempotent ==
    (Merged /\ Valid(last_call.before_existing)
        /\ last_call.before_existing.tags = last_call.before_incoming.tags) =>
        LET result == DatasetValue(last_call.result)
            d == last_call.before_existing
        IN /\ Keys(result.tags) = Keys(d.tags)
           /\ Len(result.tags) = Len(d.tags)
           /\ \A t \in Keys(d.tags) : GroupOf(result.tags, t) = GroupOf(d.tags, t)
           /\ result.statistics = d.statistics

\* a valid dataset of two tags with as many repositories each was merged with itself
C5_Witness ==
    /\ Merged
    /\ last_call.existing = last_call.incoming
    /\ Valid(last_call.before_existing)
    /\ Len(last_call.before_existing.tags) = 2
    /\ last_call.before_existing.tags[1].group.summary.total_repositories =
          last_call.before_existing.tags[2].group.summary.total_repositories

\* C12: in every dataset the repository_name values of the records of one
\* tag group are pairwise distinct.
C12_RepositoryNamesUniqueInGroup ==
    \A d \in 1..Len(datasets) :
        LET tags_value == DatasetValue(d).tags
        IN \A k \in 1..Len(tags_value) :
              LET repos == tags_value[k].group.repositories
              IN \A a, b \in 1..Len(repos) :
                    a # b => repos[a].repository_name # repos[b].repository_name

\* C13: an enhance call leaves the tags, the groups and the records in place
\* and sets each record by its repository: in the config with the group's tag
\* under deployed_versions, the status and environment of that entry; in the
\* config without the tag, "not_deployed" and "none"; not in the config, the
\* status and environment it had ("unknown" stays "unknown").  Each group's
\* deployment_environments is then the set of its records' environments
\* other than "unknown" and "none".
C13_EnhanceThreeWayRule ==
    last_call.op = "enhance" =>
        LET config == last_call.deployment_config
            before == last_call.before_existing.tags
            after == DatasetValue(last_call.result).tags
        IN /\ Len(after) = Len(before)
           /\ \A k \in 1..Len(after) :
                 LET tag == after[k].key
                     old == before[k].group.repositories
                     new == after[k].group.repositories
                 IN /\ before[k].key = tag
                    /\ Len(new) = Len(old)
                    /\ \A m \in 1..Len(new) :
                          LET name == old[m].repository_name
                          IN /\ new[m].repository_name = name
                             /\ IF name \notin DOMAIN config
                                THEN /\ new[m].deployment_status = old[m].deployment_status
                                     /\ new[m].environment = old[m].environment
                                     /\ old[m].deployment_status = "unknown" =>
                                           new[m].deployment_status # "not_deployed"
                                ELSE IF tag \in DOMAIN config[name].deployed_versions
                                THEN LET entry == config[name].deployed_versions[tag]
                                     IN /\ "status" \in DOMAIN entry =>
                                              new[m].deployment_status = entry.status
                                        /\ "environment" \in DOMAIN entry =>
                                              new[m].environment = entry.environment
                                ELSE /\ new[m].deployment_status = "not_deployed"
                                     /\ new[m].environment = "none"
                    /\ after[k].group.summary.deployment_environments =
                          { new[m].environment : m \in 1..Len(new) } \ {"unknown", "none"}

\* the statuses of the records of a dataset value
StatusesOf(tags_value) ==
    UNION { { tags_value[k].group.repositories[m].deployment_status :
                m \in 1..Len(tags_value[k].group.repositories) } :
            k \in 1..Len(tags_value) }

\* an enhance call met the three cases in a dataset none of whose records had
\* a status before, and one group shows the environment "production"
C13_Witness ==
    /\ last_call.op = "enhance"
    /\ StatusesOf(last_call.before_existing.tags) = {"unknown"}
    /\ StatusesOf(DatasetValue(last_call.result).tags) =
          {"deployed", "not_deployed", "unknown"}
    /\ \E k \in 1..Len(DatasetValue(last_call.result).tags) :
          DatasetValue(last_call.result).tags[k].group.summary.deployment_environments
             = {"production"}

\* an element of tags_found lacks a field every match has
Malformed(tags_found) ==
    \E k \in 1..Len(tags_found) :
        \/ "tag_name" \notin DOMAIN tags_found[k]
        \/ "repository_name" \notin DOMAIN tags_found[k]

\* C14: a transform call given a match without tag_name or repository_name
\* fails: it returns no dataset.
C14_MalformedInputRaises ==
    (last_call.op = "transform" /\ Malformed(last_call.tags_found)) => last_call.raised

\* the place of the first match of tags_found that carries tag_name
FirstIndex(tags_found, tag_name) ==
    CHOOSE i \in 1..Len(tags_found) :
        /\ TagNameOf(tags_found[i]) = tag_name
        /\ \A j \in 1..(i - 1) : TagNameOf(tags_found[j]) # tag_name

\* C15: the dataset a transform or a merge returns names as most_common_tag
\* the first tag, in the order of its tags, among those with the largest
\* total_repositories; the tags of a transform are the tag names of the
\* matches in the order they are first met, and the tags of a merge are those
\* of existing in their order followed by the new ones of incoming in theirs.
C15_MostCommonTagFirstSeen ==
    (last_call.op \in {"transform", "merge"} /\ ~last_call.raised) =>
        LET result == DatasetValue(last_call.result)
            tags_value == result.tags
            count == [k \in 1..Len(tags_value) |->
                         tags_value[k].group.summary.total_repositories]
        IN /\ IF tags_value = <<>>
              THEN result.statistics.most_common_tag = <<>>
              ELSE \E k \in 1..Len(tags_value) :
                      /\ result.statistics.most_common_tag = tags_value[k].key
                      /\ \A m \in 1..Len(tags_value) : count[m] <= count[k]
                      /\ \A m \in 1..(k - 1) : count[m] < count[k]
           /\ last_call.op = "transform" =>
                 /\ Keys(tags_value) =
                       { TagNameOf(last_call.tags_found[i]) :
                           i \in 1..Len(last_call.tags_found) }
                 /\ \A a, b \in 1..Len(tags_value) :
                       a < b => FirstIndex(last_call.tags_found, tags_value[a].key)
                                  < FirstIndex(last_call.tags_found, tags_value[b].key)
                 /\ \A k \in 1..Len(tags_value) :
                       count[k] = Cardinality({ i \in 1..Len(last_call.tags_found) :
                                     TagNameOf(last_call.tags_found[i]) = tags_value[k].key })
           /\ last_call.op = "merge" =>
                 LET a == last_call.before_existing.tags
                     b == last_call.before_incoming.tags
                     added == SelectSeq(b, LAMBDA e : e.key \notin Keys(a))
                 IN [k \in 1..Len(tags_value) |-> tags_value[k].key] =
                       [k \in 1..Len(a) |-> a[k].key] \o [k \in 1..Len(added) |-> added[k].key]

\* a transform met the tag "1.0" before the tag "1", one match each, and
\* named "1.0" the most common tag
C15_Witness ==
    /\ last_call.op = "transform"
    /\ ~last_call.raised
    /\ Len(last_call.tags_found) = 2
    /\ TagNameOf(last_call.tags_found[1]) = TagB
    /\ TagNameOf(last_call.tags_found[2]) = TagA
    /\ DatasetValue(last_call.result).statistics.most_common_tag = TagB

\* C16: the latest_commit_date of every tag group is the largest, as texts
\* compare, of the dates of its records that are neither empty nor null, and
\* the empty text when no record has such a date.
C16_LatestCommitDateIsMax ==
    \A g \in 1..Len(groups) :
        LET present == { groups[g].repositories[m].date :
                           m \in 1..Len(groups[g].repositories) } \ {<<>>, None}
            latest == groups[g].summary.latest_commit_date
        IN IF present = {}
           THEN latest = <<>>
           ELSE /\ latest \in present
                /\ \A d \in present : ~StrLess(latest, d)

\* a group of two records dated 2024-01-01 and 2024-03-01, in that order,
\* shows 2024-03-01, and a group whose one record has no date shows none
C16_Witness ==
    /\ \E g \in 1..Len(groups) :
          /\ Len(groups[g].repositories) = 2
          /\ groups[g].repositories[1].date = Date0101
          /\ groups[g].repositories[2].date = Date0301
          /\ groups[g].summary.latest_commit_date = Date0301
    /\ \E g \in 1..Len(groups) :
          /\ Len(groups[g].repositories) = 1
          /\ groups[g].repositories[1].date = None
          /\ groups[g].summary.latest_commit_date = <<>>

=============================================================================
